---- MODULE Spec2Model ----
(***************************************************************************)
(* Model of the patient management backend (src/main.py): the create and   *)
(* update handlers, the three validation gates, the resource mapper and    *)
(* the remote client.  Strings that the code transforms (strip, lower,     *)
(* split, int, str) are sequences of one-character strings, so that the    *)
(* conversions are computed and not assumed.  Python's None / absent key   *)
(* is the empty sequence, a present value v is <<v>>.                      *)
(***************************************************************************)
EXTENDS Integers, Sequences, FiniteSets, TLC

VARIABLES pc, op, req, payload, calls, fetched, answer, schemaVerdict, resp, today

vars == <<pc, op, req, payload, calls, fetched, answer, schemaVerdict, resp, today>>

(***************************************************************************)
(* Bounds of the model.                                                    *)
(***************************************************************************)
\* longest name list of a fetched resource
MaxNames == 2
\* longest telecom list of a fetched resource
MaxTelecom == 2

(***************************************************************************)
(* Optional values and Python truthiness.                                  *)
(***************************************************************************)
None == <<>>
Some(x) == <<x>>
\* d.get(k) or default, for a list- or string-valued key
OrElse(o, default) == IF o = <<>> \/ o[1] = <<>> THEN default ELSE o[1]

(***************************************************************************)
(* Strings.                                                                *)
(***************************************************************************)
Whitespace == {" ", "\t", "\n"}
UpperChars == <<"A", "B", "C", "D", "E", "F", "G", "H", "I", "J", "K", "L", "M",
                "N", "O", "P", "Q", "R", "S", "T", "U", "V", "W", "X", "Y", "Z">>
LowerChars == <<"a", "b", "c", "d", "e", "f", "g", "h", "i", "j", "k", "l", "m",
                "n", "o", "p", "q", "r", "s", "t", "u", "v", "w", "x", "y", "z">>
DigitChars == <<"0", "1", "2", "3", "4", "5", "6", "7", "8", "9">>

LowerChar(c) ==
    IF \E i \in 1..Len(UpperChars) : UpperChars[i] = c
    THEN LowerChars[CHOOSE i \in 1..Len(UpperChars) : UpperChars[i] = c]
    ELSE c

\* str.lower()
Lower(s) == [i \in 1..Len(s) |-> LowerChar(s[i])]

RECURSIVE LStrip(_)
LStrip(s) == IF s # <<>> /\ Head(s) \in Whitespace THEN LStrip(Tail(s)) ELSE s

RECURSIVE RStrip(_)
RStrip(s) ==
    IF s # <<>> /\ s[Len(s)] \in Whitespace THEN RStrip(SubSeq(s, 1, Len(s) - 1)) ELSE s

\* str.strip()
Strip(s) == RStrip(LStrip(s))

IsDigit(c) == \E i \in 1..Len(DigitChars) : DigitChars[i] = c
DigitValue(c) == (CHOOSE i \in 1..Len(DigitChars) : DigitChars[i] = c) - 1

RECURSIVE Digits(_)
Digits(n) ==
    IF n < 10 THEN <<DigitChars[n + 1]>>
    ELSE Digits(n \div 10) \o <<DigitChars[(n % 10) + 1]>>

\* str(n) of an integer
Str(n) == IF n < 0 THEN <<"-">> \o Digits(-n) ELSE Digits(n)

RECURSIVE DigitsValue(_)
DigitsValue(s) ==
    IF s = <<>> THEN 0
    ELSE 10 * DigitsValue(SubSeq(s, 1, Len(s) - 1)) + DigitValue(s[Len(s)])

\* int(x) of a string: surrounding whitespace and one sign are allowed, then
\* at least one digit and nothing else; anything else raises ValueError
PyInt(x) ==
    LET t == Strip(x)
        signed == t # <<>> /\ Head(t) \in {"+", "-"}
        body == IF signed THEN Tail(t) ELSE t
        ok == body # <<>> /\ \A i \in 1..Len(body) : IsDigit(body[i])
    IN  [ok |-> ok,
         val |-> IF ~ok THEN 0
                 ELSE IF signed /\ Head(t) = "-" THEN 0 - DigitsValue(body)
                 ELSE DigitsValue(body)]

\* str.split("-")
RECURSIVE SplitDash(_)
SplitDash(s) ==
    IF \A i \in 1..Len(s) : s[i] # "-" THEN <<s>>
    ELSE LET k == CHOOSE i \in 1..Len(s) : s[i] = "-" /\ \A j \in 1..(i - 1) : s[j] # "-"
         IN  <<SubSeq(s, 1, k - 1)>> \o SplitDash(SubSeq(s, k + 1, Len(s)))

(***************************************************************************)
(* Calendar dates (datetime.date).                                         *)
(***************************************************************************)
IsLeap(y) == (y % 4 = 0 /\ y % 100 # 0) \/ y % 400 = 0

DaysInMonth(y, m) ==
    IF m = 2 THEN (IF IsLeap(y) THEN 29 ELSE 28)
    ELSE IF m \in {4, 6, 9, 11} THEN 30 ELSE 31

\* date(year, month, day) raises ValueError unless this holds
DateValid(y, m, d) ==
    /\ y >= 1 /\ y <= 9999
    /\ m >= 1 /\ m <= 12
    /\ d >= 1 /\ d <= DaysInMonth(y, m)

\* d1 > d2 on dates <<year, month, day>>
DateAfter(d1, d2) ==
    \/ d1[1] > d2[1]
    \/ d1[1] = d2[1] /\ d1[2] > d2[2]
    \/ d1[1] = d2[1] /\ d1[2] = d2[2] /\ d1[3] > d2[3]

(***************************************************************************)
(* JSON values of the request body's phone field, as the client sends it.  *)
(***************************************************************************)
JAbsent == [kind |-> "absent", int |-> 0, str |-> <<>>]
JInt(n) == [kind |-> "int", int |-> n, str |-> <<>>]
JStr(s) == [kind |-> "str", int |-> 0, str |-> s]

\* str(v) of a validated phone value
PyStr(v) == IF v.kind = "int" THEN Str(v.int) ELSE v.str

(***************************************************************************)
(* HTTPException(status_code, detail).                                     *)
(***************************************************************************)
HTTPException(status_code, detail) == [status_code |-> status_code, detail |-> detail]

DobMessage == "Date of Birth cannot be in the future."

(***************************************************************************)
(* Structural gate: the request models, validated before the handler body  *)
(* runs.  constr(strip_whitespace=True, min_length=1) strips and then      *)
(* requires one character; conint(strict=True) takes a JSON integer only.  *)
(***************************************************************************)
ConstrOk(o) == o # None /\ Len(Strip(o[1])) >= 1
ConstrValue(o) == IF o = None THEN None ELSE Some(Strip(o[1]))
ConintOk(v) == v.kind = "int"

NoPayload == [given |-> None, family |-> None, gender |-> None, birthDate |-> None,
              phone |-> JAbsent]

StripFields(body) ==
    [given |-> ConstrValue(body.given), family |-> ConstrValue(body.family),
     gender |-> ConstrValue(body.gender), birthDate |-> ConstrValue(body.birthDate),
     phone |-> body.phone]

\* class PatientCreate: every field required
PatientCreate(body) ==
    LET ok == /\ ConstrOk(body.given) /\ ConstrOk(body.family)
              /\ ConstrOk(body.gender) /\ ConstrOk(body.birthDate)
              /\ ConintOk(body.phone)
    IN  [ok |-> ok, value |-> IF ok THEN StripFields(body) ELSE NoPayload]

\* class PatientUpdate: every field optional
PatientUpdate(body) ==
    LET ok == /\ body.given = None \/ ConstrOk(body.given)
              /\ body.family = None \/ ConstrOk(body.family)
              /\ body.gender = None \/ ConstrOk(body.gender)
              /\ body.birthDate = None \/ ConstrOk(body.birthDate)
              /\ body.phone.kind = "absent" \/ ConintOk(body.phone)
    IN  [ok |-> ok, value |-> IF ok THEN StripFields(body) ELSE NoPayload]

(***************************************************************************)
(* Remote resources: a JSON object with the keys the code reads.           *)
(***************************************************************************)
EmptyDict ==
    [resource |-> None, resourceType |-> None, id |-> None, identifier |-> None,
     name |-> None, gender |-> None, birthDate |-> None, telecom |-> None,
     meta |-> None]

PhoneEntry(value) == [system |-> Some("phone"), value |-> Some(value)]

\* the resource with telecom set under "if phone:" for "if phone is not None:"
build_patient_resource_if_phone(given, family, gender, birthDate, phone) ==
    LET resource ==
            [EmptyDict EXCEPT
                !.resourceType = Some("Patient"),
                !.name = Some(<<[use |-> Some("official"), family |-> Some(family),
                                 given |-> Some(<<given>>)]>>),
                !.gender = Some(Lower(gender)),
                !.birthDate = Some(birthDate)]
    IN  IF phone.kind # "absent" /\ phone # JInt(0)
        THEN [resource EXCEPT !.telecom = Some(<<PhoneEntry(PyStr(phone))>>)]
        ELSE resource

build_patient_resource(given, family, gender, birthDate, phone) ==
    LET resource ==
            [EmptyDict EXCEPT
                !.resourceType = Some("Patient"),
                !.name = Some(<<[use |-> Some("official"), family |-> Some(family),
                                 given |-> Some(<<given>>)]>>),
                !.gender = Some(Lower(gender)),
                !.birthDate = Some(birthDate)]
    IN  IF phone.kind # "absent"
        THEN [resource EXCEPT !.telecom = Some(<<PhoneEntry(PyStr(phone))>>)]
        ELSE resource

(***************************************************************************)
(* Business-rule gate.  The result is None when the function returns and   *)
(* the exception when it raises.                                           *)
(***************************************************************************)
\* the gate with d >= date.today() for d > date.today()
validate_birthdate_not_past_today(birth_date, now) ==
    LET parts == SplitDash(birth_date)
        ints == [i \in 1..Len(parts) |-> PyInt(parts[i])]
        parsed == /\ \A i \in 1..Len(parts) : ints[i].ok
                  /\ Len(parts) = 3
                  /\ DateValid(ints[1].val, ints[2].val, ints[3].val)
    IN  IF parsed /\ ~DateAfter(now, <<ints[1].val, ints[2].val, ints[3].val>>)
        THEN Some(HTTPException(422, DobMessage))
        ELSE None

validate_birthdate_not_future(birth_date, now) ==
    LET parts == SplitDash(birth_date)
        ints == [i \in 1..Len(parts) |-> PyInt(parts[i])]
        parsed == /\ \A i \in 1..Len(parts) : ints[i].ok
                  /\ Len(parts) = 3
                  /\ DateValid(ints[1].val, ints[2].val, ints[3].val)
    IN  IF parsed /\ DateAfter(<<ints[1].val, ints[2].val, ints[3].val>>, now)
        THEN Some(HTTPException(422, DobMessage))
        ELSE None

(***************************************************************************)
(* Reverse mapping: a bundle entry or a bare resource to a flat summary.   *)
(***************************************************************************)
\* truthiness of d.get(k): a string of characters, and an atomic token
Truthy(o) == o # None /\ o[1] # <<>>
TruthyToken(o) == o # None /\ o[1] # ""

RECURSIVE FirstPhone(_)
FirstPhone(telecom) ==
    IF telecom = <<>> THEN None
    ELSE IF Head(telecom).system = Some("phone") /\ Truthy(Head(telecom).value)
         THEN Head(telecom).value
         ELSE FirstPhone(Tail(telecom))

extract_patient_summary(entry) ==
    LET res == IF entry.resource # None THEN entry.resource[1] ELSE entry
        identifiers == OrElse(res.identifier, <<>>)
        identifier ==
            IF identifiers # <<>>
            THEN IF TruthyToken(identifiers[1].value) THEN identifiers[1].value
                 ELSE IF TruthyToken(identifiers[1].id) THEN identifiers[1].id
                 ELSE res.id
            ELSE res.id
        names == OrElse(res.name, <<>>)
        given_list == IF names # <<>> THEN OrElse(names[1].given, <<>>) ELSE <<>>
        given_val == IF given_list # <<>> THEN Some(Strip(given_list[1])) ELSE None
        family_str == IF names # <<>> THEN Strip(OrElse(names[1].family, <<>>)) ELSE <<>>
        family_val == IF family_str # <<>> THEN Some(family_str) ELSE None
    IN  IF res = EmptyDict \/ res.resourceType # Some("Patient") THEN None
        ELSE Some([id |-> IF res.id = None THEN "" ELSE res.id[1],
                   identifier |-> identifier,
                   given |-> given_val,
                   family |-> family_val,
                   gender |-> res.gender,
                   birthDate |-> res.birthDate,
                   phone |-> FirstPhone(OrElse(res.telecom, <<>>)),
                   lastUpdated |-> IF res.meta # None THEN res.meta[1].lastUpdated
                                   ELSE None])

(***************************************************************************)
(* Schema gate.  The schema document is read from fhir.schema.json at      *)
(* start-up; its verdict on a resource is an input of the handler.         *)
(***************************************************************************)
SchemaVerdicts == {"valid", "violation"}

validate_resource_against_fhir_schema(verdict) ==
    IF verdict = "valid" THEN None
    ELSE Some(HTTPException(422, "FHIR schema validation error"))

(***************************************************************************)
(* Remote client.  What the remote server does with a call is an outcome:  *)
(* a transport failure, or a response with a status and a JSON body.       *)
(***************************************************************************)
Transport == [kind |-> "transport", status |-> 0, body |-> EmptyDict]
Response(status, body) == [kind |-> "response", status |-> status, body |-> body]
NoOutcome == [kind |-> "none", status |-> 0, body |-> EmptyDict]

\* r.raise_for_status() raises HTTPStatusError unless the status is 2xx
IsSuccess(status) == status >= 200 /\ status <= 299

RemoteResult(outcome) ==
    IF outcome.kind = "transport"
    THEN [raised |-> Some(HTTPException(502, "FHIR connection error")), value |-> EmptyDict]
    ELSE IF ~IsSuccess(outcome.status)
    THEN [raised |-> Some(HTTPException(outcome.status, "FHIR request failed")),
          value |-> EmptyDict]
    ELSE [raised |-> None, value |-> outcome.body]

fhir_get(outcome) == RemoteResult(outcome)
\* fhir_post answering 502 to every failure
fhir_post_bad_gateway(outcome) ==
    IF outcome.kind = "transport" \/ ~IsSuccess(outcome.status)
    THEN [raised |-> Some(HTTPException(502, "FHIR connection error")), value |-> EmptyDict]
    ELSE [raised |-> None, value |-> outcome.body]

fhir_post(outcome) == RemoteResult(outcome)
fhir_put(outcome) == RemoteResult(outcome)

Call(method, data) == [method |-> method, data |-> data]

(***************************************************************************)
(* Responses to the client.                                                *)
(***************************************************************************)
NoResp == [status |-> 0, detail |-> "", summary |-> None]
Failure(e) == [status |-> e.status_code, detail |-> e.detail, summary |-> None]
Success(summary) == [status |-> 200, detail |-> "", summary |-> Some(summary)]
\* the framework's answer to a body the request model rejects
RequestValidationError == HTTPException(422, "Request validation error")

(***************************************************************************)
(* create_patient: from the request to the POST, and from the remote       *)
(* server's answer to the response.  A step is what the handler has done   *)
(* when it suspends or returns.                                            *)
(***************************************************************************)
Step(p, verdict, response, call) ==
    [payload |-> p, schemaVerdict |-> verdict, resp |-> response, call |-> call]

\* create_patient posting the resource without the schema gate
create_patient_unvalidated(body, now, verdict) ==
    LET validated == PatientCreate(body)
        p == validated.value
        future == validate_birthdate_not_future(p.birthDate[1], now)
        resource == build_patient_resource(p.given[1], p.family[1], p.gender[1],
                                           p.birthDate[1], p.phone)
    IN  IF ~validated.ok
        THEN Step(NoPayload, "not_run", Failure(RequestValidationError), None)
        ELSE IF future # None THEN Step(p, "not_run", Failure(future[1]), None)
        ELSE Step(p, verdict, NoResp, Some(Call("POST", resource)))

create_patient(body, now, verdict) ==
    LET validated == PatientCreate(body)
        p == validated.value
        future == validate_birthdate_not_future(p.birthDate[1], now)
        resource == build_patient_resource(p.given[1], p.family[1], p.gender[1],
                                           p.birthDate[1], p.phone)
        schema == validate_resource_against_fhir_schema(verdict)
    IN  IF ~validated.ok
        THEN Step(NoPayload, "not_run", Failure(RequestValidationError), None)
        ELSE IF future # None THEN Step(p, "not_run", Failure(future[1]), None)
        ELSE IF schema # None THEN Step(p, verdict, Failure(schema[1]), None)
        ELSE Step(p, verdict, NoResp, Some(Call("POST", resource)))

create_patient_resume(outcome) ==
    LET created == fhir_post(outcome)
        summary == extract_patient_summary(created.value)
    IN  IF created.raised # None THEN Failure(created.raised[1])
        ELSE IF summary = None
        THEN Failure(HTTPException(500, "Failed to create patient"))
        ELSE Success(summary[1])

(***************************************************************************)
(* update_patient: the merge of the patch into the fetched resource.       *)
(***************************************************************************)
EmptyName == [use |-> None, family |-> None, given |-> None]

\* the first name entry patched in place, the later entries kept
MergeNameInPlace(existing, p) ==
    IF p.given # None \/ p.family # None
    THEN LET names == OrElse(existing.name, <<EmptyName>>)
             name_obj == names[1]
             with_given == IF p.given # None
                           THEN [name_obj EXCEPT !.given = Some(<<p.given[1]>>)]
                           ELSE name_obj
             with_family == IF p.family # None
                            THEN [with_given EXCEPT !.family = p.family]
                            ELSE with_given
         IN  [existing EXCEPT !.name = Some(<<with_family>> \o Tail(names))]
    ELSE existing

MergeName(existing, p) ==
    IF p.given # None \/ p.family # None
    THEN LET names == OrElse(existing.name, <<EmptyName>>)
             name_obj == names[1]
             with_given == IF p.given # None
                           THEN [name_obj EXCEPT !.given = Some(<<p.given[1]>>)]
                           ELSE name_obj
             with_family == IF p.family # None
                            THEN [with_given EXCEPT !.family = p.family]
                            ELSE with_given
         IN  [existing EXCEPT !.name = Some(<<with_family>>)]
    ELSE existing

\* the patched gender stored as given
MergeGenderVerbatim(existing, p) ==
    IF p.gender # None THEN [existing EXCEPT !.gender = p.gender]
    ELSE existing

MergeGender(existing, p) ==
    IF p.gender # None THEN [existing EXCEPT !.gender = Some(Lower(p.gender[1]))]
    ELSE existing

\* birthDate written whether or not the patch carries it
MergeBirthDateAlways(existing, p) == [existing EXCEPT !.birthDate = p.birthDate]

MergeBirthDate(existing, p) ==
    IF p.birthDate # None THEN [existing EXCEPT !.birthDate = p.birthDate]
    ELSE existing

NotPhone(t) == t.system # Some("phone")

\* the new phone entry added to the fetched telecom list
MergeTelecomAppend(existing, p) ==
    IF p.phone.kind # "absent"
    THEN IF p.phone = JStr(<<>>)
         THEN [existing EXCEPT
                  !.telecom = Some(SelectSeq(OrElse(existing.telecom, <<>>), NotPhone))]
         ELSE [existing EXCEPT
                  !.telecom = Some(OrElse(existing.telecom, <<>>)
                                   \o <<PhoneEntry(PyStr(p.phone))>>)]
    ELSE existing

MergeTelecom(existing, p) ==
    IF p.phone.kind # "absent"
    THEN IF p.phone = JStr(<<>>)
         THEN [existing EXCEPT
                  !.telecom = Some(SelectSeq(OrElse(existing.telecom, <<>>), NotPhone))]
         ELSE [existing EXCEPT !.telecom = Some(<<PhoneEntry(PyStr(p.phone))>>)]
    ELSE existing

merge_updates(existing, p) ==
    MergeTelecom(MergeBirthDate(MergeGender(MergeName(existing, p), p), p), p)

(***************************************************************************)
(* update_patient: from the request to the GET, from the fetched resource  *)
(* to the PUT, and from the remote server's answer to the response.        *)
(***************************************************************************)
update_patient(body) ==
    LET validated == PatientUpdate(body)
    IN  IF ~validated.ok
        THEN Step(NoPayload, "not_run", Failure(RequestValidationError), None)
        ELSE Step(validated.value, "not_run", NoResp, Some(Call("GET", EmptyDict)))

\* update_patient that accepts a fetched resource of any type
update_patient_merge_any_type(p, outcome, now, verdict) ==
    LET got == fhir_get(outcome)
        existing == got.value
        future == IF p.birthDate # None
                  THEN validate_birthdate_not_future(p.birthDate[1], now)
                  ELSE None
        merged == merge_updates(existing, p)
        schema == validate_resource_against_fhir_schema(verdict)
    IN  IF got.raised # None THEN Step(p, "not_run", Failure(got.raised[1]), None)
        ELSE IF existing = EmptyDict
        THEN Step(p, "not_run", Failure(HTTPException(404, "Patient not found")), None)
        ELSE IF future # None THEN Step(p, "not_run", Failure(future[1]), None)
        ELSE IF schema # None THEN Step(p, verdict, Failure(schema[1]), None)
        ELSE Step(p, verdict, NoResp, Some(Call("PUT", merged)))

update_patient_merge(p, outcome, now, verdict) ==
    LET got == fhir_get(outcome)
        existing == got.value
        future == IF p.birthDate # None
                  THEN validate_birthdate_not_future(p.birthDate[1], now)
                  ELSE None
        merged == merge_updates(existing, p)
        schema == validate_resource_against_fhir_schema(verdict)
    IN  IF got.raised # None THEN Step(p, "not_run", Failure(got.raised[1]), None)
        ELSE IF existing = EmptyDict \/ existing.resourceType # Some("Patient")
        THEN Step(p, "not_run", Failure(HTTPException(404, "Patient not found")), None)
        ELSE IF future # None THEN Step(p, "not_run", Failure(future[1]), None)
        ELSE IF schema # None THEN Step(p, verdict, Failure(schema[1]), None)
        ELSE Step(p, verdict, NoResp, Some(Call("PUT", merged)))

update_patient_resume(outcome) ==
    LET updated == fhir_put(outcome)
        summary == extract_patient_summary(updated.value)
    IN  IF updated.raised # None THEN Failure(updated.raised[1])
        ELSE IF summary = None
        THEN Failure(HTTPException(500, "Failed to update patient"))
        ELSE Success(summary[1])

(***************************************************************************)
(* The inputs: request bodies, the current date, and what the remote       *)
(* server may answer.                                                      *)
(***************************************************************************)
Pad2(n) == IF n < 10 THEN <<"0">> \o Digits(n) ELSE Digits(n)
IsoDate(d) == Digits(d[1]) \o <<"-">> \o Pad2(d[2]) \o <<"-">> \o Pad2(d[3])

Todays == {<<2026, 11, 1>>, <<2027, 2, 28>>}

Givens == {None, Some(<<"A", "l">>), Some(<<" ", "B", " ">>), Some(<<" ">>)}
Families == {None, Some(<<"K", "o">>), Some(<<>>)}
Genders == {None, Some(<<"M", "a", "l", "e">>), Some(<<"o", "t", "h", "e", "r">>)}

\* well-formed texts around the current dates, and texts int() or date() refuse
UpdateBirthDates ==
    {None,
     Some(IsoDate(<<2026, 11, 1>>)), Some(IsoDate(<<2026, 11, 2>>)),
     Some(IsoDate(<<2027, 2, 29>>)),
     Some(<<"n", "o", "t", "-", "a", "-", "d", "a", "t", "e">>)}
BirthDates ==
    UpdateBirthDates \cup
    {Some(IsoDate(<<2026, 10, 31>>)), Some(IsoDate(<<2099, 1, 1>>)),
     Some(IsoDate(<<2028, 2, 29>>)), Some(IsoDate(<<2026, 12, 32>>)),
     Some(<<"2", "0", "9", "9", "-", " ", "1", "-", "1">>),
     Some(<<"2", "0", "9", "9", "-", "0", "1">>),
     Some(<<"2", "0", "9", "9", "/", "0", "1", "/", "0", "1">>),
     Some(IsoDate(<<2099, 1, 1>>) \o <<"-", "0", "1">>)}

UpdatePhones == {JAbsent, JStr(<<>>), JInt(0), JInt(12345)}
Phones == UpdatePhones \cup {JStr(<<"1", "2">>), JInt(0 - 7)}

CreateBodies ==
    [given : Givens, family : Families, gender : Genders, birthDate : BirthDates,
     phone : Phones]
UpdateBodies ==
    [given : Givens, family : Families, gender : Genders, birthDate : UpdateBirthDates,
     phone : UpdatePhones]

\* sequences over S of length at most n
SeqsUpTo(S, n) == UNION {[1..k -> S] : k \in 0..n}

FirstNames ==
    {[use |-> Some("official"), family |-> Some(<<"O", "l", "d">>),
      given |-> Some(<<<<"X">>, <<"Y">>>>)],
     [use |-> Some("usual"), family |-> None, given |-> None]}
OtherName == [use |-> Some("maiden"), family |-> Some(<<"M">>), given |-> Some(<<<<"Z">>>>)]

NameLists ==
    {None, Some(<<>>)} \cup
    {Some(<<first>> \o [i \in 1..k |-> OtherName]) :
        first \in FirstNames, k \in 0..(MaxNames - 1)}

TelecomEntries ==
    {PhoneEntry(<<"5", "5", "5">>),
     [system |-> Some("email"), value |-> Some(<<"a", "@", "b">>)]}
TelecomLists == {None} \cup {Some(t) : t \in SeqsUpTo(TelecomEntries, MaxTelecom)}

FetchedGenders == {None, Some(<<"m", "a", "l", "e">>), Some(<<"M", "a", "l", "e">>)}

StoredPatients ==
    {[EmptyDict EXCEPT
         !.resourceType = Some("Patient"), !.id = Some("p1"),
         !.name = n, !.gender = g, !.birthDate = Some(IsoDate(<<1990, 5, 17>>)),
         !.telecom = t, !.meta = Some([lastUpdated |-> Some("t0")])] :
        n \in NameLists, g \in FetchedGenders, t \in TelecomLists}

Observation == [EmptyDict EXCEPT !.resourceType = Some("Observation"), !.id = Some("p1")]
OperationOutcome == [EmptyDict EXCEPT !.resourceType = Some("OperationOutcome")]
Wrapped(res) == [EmptyDict EXCEPT !.resource = Some(res)]

\* the resource as the remote server stores and returns it
Stored(data, stamp) ==
    [data EXCEPT !.id = Some("p1"), !.meta = Some([lastUpdated |-> Some(stamp)])]

GetOutcomes ==
    {Transport, Response(404, EmptyDict), Response(500, EmptyDict),
     Response(200, EmptyDict), Response(200, Observation),
     Response(200, Wrapped(Stored(Observation, "t0")))}
    \cup {Response(200, res) : res \in StoredPatients}

PostOutcomes(data) ==
    {Transport, Response(301, EmptyDict), Response(422, OperationOutcome),
     Response(500, EmptyDict), Response(201, Stored(data, "t1")),
     Response(201, Wrapped(Stored(data, "t1"))),
     Response(201, [Stored(data, "t1") EXCEPT
                       !.identifier = Some(<<[value |-> Some("MRN1"), id |-> None]>>)]),
     Response(200, OperationOutcome), Response(200, EmptyDict)}

PutOutcomes(data) ==
    {Transport, Response(500, EmptyDict), Response(200, Stored(data, "t1")),
     Response(200, EmptyDict)}

(***************************************************************************)
(* The state machine: one request at a time; the handler suspends at each  *)
(* remote call and the remote server's answer resumes it.                  *)
(***************************************************************************)
Init ==
    /\ pc = "idle"
    /\ op = "none"
    /\ req = NoPayload
    /\ payload = NoPayload
    /\ calls = <<>>
    /\ fetched = NoOutcome
    /\ answer = NoOutcome
    /\ schemaVerdict = "not_run"
    /\ resp = NoResp
    /\ today \in Todays

\* what a step of a handler leaves in the state
Advance(step, awaiting) ==
    /\ payload' = step.payload
    /\ schemaVerdict' = step.schemaVerdict
    /\ resp' = step.resp
    /\ calls' = IF step.call = None THEN calls ELSE Append(calls, step.call[1])
    /\ pc' = IF step.call = None THEN "done" ELSE awaiting

CreateRequest ==
    /\ pc = "idle"
    /\ \E body \in CreateBodies, verdict \in SchemaVerdicts :
          /\ req' = body
          /\ Advance(create_patient(body, today, verdict), "await_post")
    /\ op' = "create"
    /\ UNCHANGED <<fetched, answer, today>>

CreateResume ==
    /\ pc = "await_post"
    /\ \E outcome \in PostOutcomes(calls[Len(calls)].data) :
          /\ answer' = outcome
          /\ resp' = create_patient_resume(outcome)
    /\ pc' = "done"
    /\ UNCHANGED <<op, req, payload, calls, fetched, schemaVerdict, today>>

UpdateRequest ==
    /\ pc = "idle"
    /\ \E body \in UpdateBodies :
          /\ req' = body
          /\ Advance(update_patient(body), "await_get")
    /\ op' = "update"
    /\ UNCHANGED <<fetched, answer, today>>

UpdateFetched ==
    /\ pc = "await_get"
    /\ \E outcome \in GetOutcomes, verdict \in SchemaVerdicts :
          /\ fetched' = outcome
          /\ Advance(update_patient_merge(payload, outcome, today, verdict), "await_put")
    /\ UNCHANGED <<op, req, answer, today>>

UpdateResume ==
    /\ pc = "await_put"
    /\ \E outcome \in PutOutcomes(calls[Len(calls)].data) :
          /\ answer' = outcome
          /\ resp' = update_patient_resume(outcome)
    /\ pc' = "done"
    /\ UNCHANGED <<op, req, payload, calls, fetched, schemaVerdict, today>>

\* the response leaves; nothing of a request outlives it
Reply ==
    /\ pc = "done"
    /\ pc' = "idle"
    /\ op' = "none"
    /\ req' = NoPayload
    /\ payload' = NoPayload
    /\ calls' = <<>>
    /\ fetched' = NoOutcome
    /\ answer' = NoOutcome
    /\ schemaVerdict' = "not_run"
    /\ resp' = NoResp
    /\ UNCHANGED today

Next ==
    \/ CreateRequest
    \/ CreateResume
    \/ UpdateRequest
    \/ UpdateFetched
    \/ UpdateResume
    \/ Reply

Spec == Init /\ [][Next]_vars

(***************************************************************************)
(* Vocabulary of the properties.                                           *)
(***************************************************************************)
IsMutating(c) == c.method \in {"POST", "PUT"}
MutatingCalls == SelectSeq(calls, IsMutating)
\* the resource of the request's mutating call, when there is one
Sent == MutatingCalls[1].data

IsLowercase(s) == \A i \in 1..Len(s) : \A j \in 1..Len(UpperChars) : s[i] # UpperChars[j]

\* the text is a year-month-day triple of a calendar date after the current date
DenotesFutureDate(text) ==
    LET parts == SplitDash(text)
    IN  /\ Len(parts) = 3
        /\ \A i \in 1..3 : PyInt(parts[i]).ok
        /\ LET y == PyInt(parts[1]).val
               m == PyInt(parts[2]).val
               d == PyInt(parts[3]).val
           IN  /\ DateValid(y, m, d)
               /\ \/ y > today[1]
                  \/ y = today[1] /\ m > today[2]
                  \/ y = today[1] /\ m = today[2] /\ d > today[3]

\* s is the decimal numeral of the integer n
RECURSIVE IsDecimalOf(_, _)
IsDecimalOf(s, n) ==
    IF n < 0 THEN s # <<>> /\ Head(s) = "-" /\ IsDecimalOf(Tail(s), 0 - n)
    ELSE /\ s # <<>>
         /\ \A i \in 1..Len(s) : IsDigit(s[i])
         /\ (Len(s) > 1 => s[1] # "0")
         /\ DigitsValue(s) = n

\* the GET of an update brought a Patient resource back
FetchedPatient ==
    /\ fetched.kind = "response"
    /\ IsSuccess(fetched.status)
    /\ fetched.body.resourceType = Some("Patient")

PutIssued == op = "update" /\ MutatingCalls # <<>>

(***************************************************************************)
(* C1: a request issues at most one mutating remote call (POST for create, *)
(* PUT for update), and only after the structural gate, the future birth   *)
(* date gate where it applies, and the schema gate have all passed; a      *)
(* request that a gate stopped has issued none.                            *)
(***************************************************************************)
C1_OneWriteAfterAllGates ==
    /\ Len(MutatingCalls) <= 1
    /\ MutatingCalls # <<>> =>
          /\ op = "create" =>
                /\ PatientCreate(req).ok
                /\ MutatingCalls[1].method = "POST"
                /\ ~DenotesFutureDate(Strip(req.birthDate[1]))
          /\ op = "update" =>
                /\ PatientUpdate(req).ok
                /\ MutatingCalls[1].method = "PUT"
                /\ req.birthDate # None => ~DenotesFutureDate(Strip(req.birthDate[1]))
          /\ schemaVerdict = "valid"
    /\ resp.detail \in {"Request validation error", DobMessage,
                       "FHIR schema validation error"} => MutatingCalls = <<>>

C1_Witness ==
    /\ pc = "done"
    /\ PutIssued
    /\ req.birthDate # None
    /\ resp.status = 200

(***************************************************************************)
(* C2: an update whose GET is answered 404 (the id is missing), or with an *)
(* empty resource, or with a resource whose type is not "Patient", fails   *)
(* with status 404 and issues no PUT.                                      *)
(***************************************************************************)
C2_UpdateNotFound ==
    ( /\ op = "update"
      /\ fetched.kind = "response"
      /\ \/ fetched.status = 404
         \/ /\ IsSuccess(fetched.status)
            /\ \/ fetched.body = EmptyDict
               \/ fetched.body.resourceType # Some("Patient") )
    => /\ pc = "done"
       /\ resp.status = 404
       /\ resp.summary = None
       /\ MutatingCalls = <<>>

C2_Witness ==
    /\ op = "update"
    /\ fetched = Response(200, Observation)
    /\ resp.status = 404
    /\ req.given # None

(***************************************************************************)
(* C3: an update whose body carries phone as the empty string, and is      *)
(* otherwise well-formed, is accepted by the request model, and the        *)
(* resource it PUTs has no telecom entry of system "phone" while every     *)
(* other telecom entry of the fetched resource is kept.                    *)
(***************************************************************************)
C3_EmptyPhoneRemovesPhone ==
    ( /\ op = "update"
      /\ pc = "done"
      /\ req.phone = JStr(<<>>)
      /\ PatientUpdate([req EXCEPT !.phone = JAbsent]).ok )
    => /\ resp # Failure(RequestValidationError)
       /\ calls # <<>>
       /\ MutatingCalls # <<>> =>
             Sent.telecom =
                 Some(SelectSeq(OrElse(fetched.body.telecom, <<>>), NotPhone))

(***************************************************************************)
(* C4: an update whose patch carries an integer phone p PUTs a resource    *)
(* whose telecom list is exactly one entry, of system "phone" and of value *)
(* the decimal numeral of p, whatever telecom the fetched resource had.    *)
(***************************************************************************)
C4_PhoneReplacesTelecom ==
    (PutIssued /\ req.phone.kind = "int")
    => /\ Sent.telecom # None
       /\ Len(Sent.telecom[1]) = 1
       /\ Sent.telecom[1][1].system = Some("phone")
       /\ Sent.telecom[1][1].value # None
       /\ IsDecimalOf(Sent.telecom[1][1].value[1], req.phone.int)

C4_Witness ==
    /\ PutIssued
    /\ req.phone = JInt(12345)
    /\ fetched.body.telecom # None
    /\ Len(fetched.body.telecom[1]) = 2
    /\ fetched.body.telecom[1][1].system = Some("email")

(***************************************************************************)
(* C5, as claimed: every resource sent by a POST or a PUT has a lowercase  *)
(* gender, updates whose patch carries no gender included.                 *)
(***************************************************************************)
C5_SentGenderAlwaysLowercase ==
    \A i \in 1..Len(MutatingCalls) :
        MutatingCalls[i].data.gender # None
            => IsLowercase(MutatingCalls[i].data.gender[1])

(***************************************************************************)
(* C5, amended: the resource sent by the POST of a create, and by the PUT  *)
(* of an update whose patch carries gender, has the lowercased gender of   *)
(* the request; an update whose patch carries no gender sends the fetched  *)
(* resource's gender as it came.                                           *)
(***************************************************************************)
C5_RequestGenderLowercased ==
    MutatingCalls # <<>> =>
        IF req.gender # None
        THEN /\ Sent.gender # None
             /\ IsLowercase(Sent.gender[1])
             /\ Len(Sent.gender[1]) = Len(Strip(req.gender[1]))
             /\ \A i \in 1..Len(Sent.gender[1]) :
                   Sent.gender[1][i] = LowerChar(Strip(req.gender[1])[i])
        ELSE Sent.gender = fetched.body.gender

C5_Witness ==
    /\ PutIssued
    /\ req.gender = Some(<<"M", "a", "l", "e">>)
    /\ fetched.body.gender = Some(<<"M", "a", "l", "e">>)
    /\ Sent.gender = Some(<<"m", "a", "l", "e">>)

(***************************************************************************)
(* C6: what the patch of an update leaves out, the PUT sends as fetched:   *)
(* gender, birthDate, the whole telecom list (phone absent), the first     *)
(* name entry's given list, the first name entry's family; with an empty   *)
(* patch the fetched resource is sent unmodified.                          *)
(***************************************************************************)
FirstName(res) == IF Truthy(res.name) THEN res.name[1][1] ELSE EmptyName

C6_AbsentFieldsUnchanged ==
    PutIssued =>
        /\ req.gender = None => Sent.gender = fetched.body.gender
        /\ req.birthDate = None => Sent.birthDate = fetched.body.birthDate
        /\ req.phone = JAbsent => Sent.telecom = fetched.body.telecom
        /\ req.given = None => FirstName(Sent).given = FirstName(fetched.body).given
        /\ req.family = None => FirstName(Sent).family = FirstName(fetched.body).family
        /\ req = NoPayload => Sent = fetched.body

C6_Witness ==
    /\ PutIssued
    /\ req.given # None
    /\ req.family = None /\ req.gender = None /\ req.birthDate = None
    /\ req.phone = JAbsent
    /\ FirstName(fetched.body).family # None
    /\ Truthy(fetched.body.telecom)
    /\ fetched.body.gender # None

(***************************************************************************)
(* C7: the future birth date gate rejects, with status 422 and the fixed   *)
(* message, exactly the texts that parse as a year-month-day triple of a   *)
(* calendar date strictly after the current date; the current date itself, *)
(* earlier dates and texts that do not parse pass.  Create applies it to   *)
(* every well-formed request, update when the patch carries birthDate and  *)
(* a Patient was fetched.                                                  *)
(***************************************************************************)
GateApplied ==
    \/ op = "create" /\ PatientCreate(req).ok
    \/ op = "update" /\ PatientUpdate(req).ok /\ req.birthDate # None /\ FetchedPatient

C7_FutureBirthDateRejected ==
    /\ resp.detail = DobMessage <=>
          GateApplied /\ DenotesFutureDate(Strip(req.birthDate[1]))
    /\ resp.detail = DobMessage =>
          /\ pc = "done"
          /\ resp.status = 422
          /\ resp.summary = None
          /\ MutatingCalls = <<>>

C7_Witness ==
    /\ op = "update"
    /\ resp.detail = DobMessage
    /\ today = <<2026, 11, 1>>
    /\ req.birthDate = Some(IsoDate(<<2026, 11, 2>>))

(***************************************************************************)
(* C8: for a request that passes the PatientCreate structural gate, the    *)
(* summary extracted from the resource built of its fields is not null and *)
(* has the request's given, family and birthDate, the lowercased gender,   *)
(* and the decimal numeral of the phone.                                   *)
(***************************************************************************)
C8_BuildExtractRoundTrip ==
    (op = "create" /\ PatientCreate(req).ok) =>
        LET p == PatientCreate(req).value
            summary == extract_patient_summary(
                           build_patient_resource(p.given[1], p.family[1], p.gender[1],
                                                  p.birthDate[1], p.phone))
        IN  /\ summary # None
            /\ summary[1].given = p.given
            /\ summary[1].family = p.family
            /\ summary[1].birthDate = p.birthDate
            /\ summary[1].gender # None
            /\ IsLowercase(summary[1].gender[1])
            /\ Len(summary[1].gender[1]) = Len(p.gender[1])
            /\ \A i \in 1..Len(p.gender[1]) :
                  summary[1].gender[1][i] = LowerChar(p.gender[1][i])
            /\ summary[1].phone # None
            /\ IsDecimalOf(summary[1].phone[1], p.phone.int)

C8_Witness ==
    /\ op = "create"
    /\ PatientCreate(req).ok
    /\ req.phone = JInt(0)
    /\ req.given = Some(<<" ", "B", " ">>)
    /\ req.gender = Some(<<"M", "a", "l", "e">>)

(***************************************************************************)
(* C9: when the remote server answers the POST of a create with a non-2xx  *)
(* status, the create fails with that status; when the POST fails at       *)
(* transport level, it fails with 502; either way no summary is returned   *)
(* and the POST stays the request's only remote call.                      *)
(***************************************************************************)
C9_CreateUpstreamFailure ==
    (op = "create" /\ answer.kind # "none") =>
        /\ (answer.kind = "response" /\ ~IsSuccess(answer.status)) =>
              /\ resp.status = answer.status
              /\ resp.summary = None
              /\ pc = "done"
              /\ Len(calls) = 1
        /\ answer.kind = "transport" =>
              /\ resp.status = 502
              /\ resp.summary = None
              /\ pc = "done"
              /\ Len(calls) = 1

C9_Witness ==
    /\ op = "create"
    /\ answer.kind = "response"
    /\ answer.status = 422
    /\ resp.status = 422
    /\ Len(calls) = 1

(***************************************************************************)
(* C10: an update whose patch carries given or family PUTs a name list of  *)
(* exactly one entry: the fetched resource's first name entry, or an empty *)
(* one if it had none, with the patched given and family set and its other *)
(* keys kept; later entries are dropped.  Without given and family in the  *)
(* patch the name list is sent as fetched.                                 *)
(***************************************************************************)
C10_NameListCollapsed ==
    PutIssued =>
        IF req.given # None \/ req.family # None
        THEN LET base == FirstName(fetched.body)
             IN  /\ Sent.name # None
                 /\ Len(Sent.name[1]) = 1
                 /\ Sent.name[1][1].use = base.use
                 /\ Sent.name[1][1].given =
                       (IF req.given # None THEN Some(<<Strip(req.given[1])>>)
                        ELSE base.given)
                 /\ Sent.name[1][1].family =
                       (IF req.family # None THEN Some(Strip(req.family[1]))
                        ELSE base.family)
        ELSE Sent.name = fetched.body.name

C10_Witness ==
    /\ PutIssued
    /\ req.given # None
    /\ req.family = None
    /\ Truthy(fetched.body.name)
    /\ Len(fetched.body.name[1]) = 2
    /\ Sent.name[1][1].family = Some(<<"O", "l", "d">>)

====
